---- MODULE Spec2Model ----
(***************************************************************************)
(* Model of the APICopilot editor plugin: the ingestion pipeline of        *)
(* load.ts (IngestionTool, ingestPostmanCollection) and the query-time     *)
(* flows of extension.ts (generateCodeLogic, generateRefactoredCodeLogic   *)
(* and the commands that call them).                                       *)
(*                                                                         *)
(* A JavaScript string is modelled as a sequence of tokens (each token a   *)
(* TLA+ string standing for a piece of text); concatenation is \o, the     *)
(* empty string and undefined are both <<>> wherever the code only tests   *)
(* truthiness.                                                             *)
(***************************************************************************)
EXTENDS Integers, Sequences, FiniteSets, TLC

(***************************************************************************)
(* Text helpers (String.prototype.trim, toUpperCase, Array.prototype.join) *)
(***************************************************************************)
IsSpace(tok) == tok \in {" ", "\n"}

RECURSIVE TrimStart(_)
TrimStart(s) ==
  IF s = <<>> THEN <<>>
  ELSE IF IsSpace(Head(s)) THEN TrimStart(Tail(s)) ELSE s

RECURSIVE TrimEnd(_)
TrimEnd(s) ==
  IF s = <<>> THEN <<>>
  ELSE IF IsSpace(s[Len(s)]) THEN TrimEnd(SubSeq(s, 1, Len(s) - 1)) ELSE s

Trim(s) == TrimEnd(TrimStart(s))

UpperTok(tok) ==
  CASE tok = "get" -> "GET"
    [] tok = "post" -> "POST"
    [] tok = "Get" -> "GET"
    [] OTHER -> tok

ToUpperCase(s) == [i \in DOMAIN s |-> UpperTok(s[i])]

RECURSIVE Join(_, _)
Join(parts, sep) ==
  IF parts = <<>> THEN <<>>
  ELSE IF Len(parts) = 1 THEN parts[1]
  ELSE parts[1] \o <<sep>> \o Join(Tail(parts), sep)

\* t occurs in s as a contiguous run of tokens (String.prototype.includes)
Contains(s, t) ==
  \E i \in 0..(Len(s) - Len(t)) : SubSeq(s, i + 1, i + Len(t)) = t

(***************************************************************************)
(* IngestionTool.flattenEndpoints                                          *)
(* An item is [id, itemKind, item, ep]: itemKind says what the JSON value  *)
(* of the "item" field is ("undefined", "string": a truthy non-array,      *)
(* "array"); item holds the children when it is an array.                  *)
(***************************************************************************)
IsArray(it) == it.itemKind = "array"

Truthy(it) == it.itemKind \in {"string", "array"}

IsFolderTruthyOnly(it) == Truthy(it)

IsFolder(it) == Truthy(it) /\ IsArray(it)

RECURSIVE flattenEndpointsNoRecurse(_)
flattenEndpointsNoRecurse(items) ==
  IF items = <<>> THEN <<>>
  ELSE (IF IsFolder(Head(items)) THEN Head(items).item ELSE <<Head(items)>>)
       \o flattenEndpointsNoRecurse(Tail(items))

RECURSIVE flattenEndpoints(_)
flattenEndpoints(items) ==
  IF items = <<>> THEN <<>>
  ELSE (IF IsFolder(Head(items))
          THEN flattenEndpoints(Head(items).item)
          ELSE <<Head(items)>>)
       \o flattenEndpoints(Tail(items))

(***************************************************************************)
(* IngestionTool.constructUrlFromPostman                                   *)
(* urlData is [kind, str, raw, protocol, host, path]; kind "none" is a     *)
(* falsy value, "string" a string, "object" an object.                     *)
(***************************************************************************)
constructUrlFromPostman(urlData) ==
  IF urlData.kind = "none" \/ (urlData.kind = "string" /\ urlData.str = <<>>)
    THEN <<>>
  ELSE IF urlData.kind = "string" THEN urlData.str
  ELSE IF urlData.raw # <<>> THEN urlData.raw
  ELSE LET protocol == IF urlData.protocol # <<>> THEN urlData.protocol
                       ELSE <<"https">>
           host == Join(urlData.host, ".")
           path == Join(urlData.path, "/")
       IN IF host # <<>> THEN protocol \o <<"://">> \o host \o <<"/">> \o path
          ELSE <<>>

NoUrl == [kind |-> "none", str |-> <<>>, raw |-> <<>>, protocol |-> <<>>,
          host |-> <<>>, path |-> <<>>]

\* ep.request?.x : undefined when the endpoint has no request object
ReqUrl(ep) == IF ep.hasRequest THEN ep.url ELSE NoUrl
ReqMethod(ep) == IF ep.hasRequest THEN ep.method ELSE <<>>
ReqDescKind(ep) == IF ep.hasRequest THEN ep.descKind ELSE "none"
ReqBodyRaw(ep) == IF ep.hasRequest THEN ep.bodyRaw ELSE <<>>

\* if (ep.request?.description): a non-empty string or any object
HasDescription(ep) ==
  \/ ReqDescKind(ep) = "object"
  \/ ReqDescKind(ep) = "string" /\ ep.descText # <<>>

BaseMetaRawName(ep, company) ==
  [name |-> ep.name, company |-> company,
   method |-> ToUpperCase(ReqMethod(ep)),
   url |-> constructUrlFromPostman(ReqUrl(ep))]

BaseMeta(ep, company) ==
  [name |-> Trim(ep.name), company |-> company,
   method |-> ToUpperCase(ReqMethod(ep)),
   url |-> constructUrlFromPostman(ReqUrl(ep))]

\* the text handed to enhanceDescription for an endpoint with a description
ContentWithUrl(ep) ==
  <<"Endpoint URL: ">> \o constructUrlFromPostman(ReqUrl(ep)) \o <<"\n\n">>
    \o ep.descText

WithType(meta, type) ==
  [name |-> meta.name, company |-> meta.company, method |-> meta.method,
   url |-> meta.url, type |-> type]

WithStatus(meta, code) ==
  [name |-> meta.name, company |-> meta.company, method |-> meta.method,
   url |-> meta.url, type |-> "response", status_code |-> code]

RECURSIVE ResponseDocs(_, _)
ResponseDocs(responses, meta) ==
  IF responses = <<>> THEN <<>>
  ELSE (IF Head(responses).body # <<>>
          THEN <<[pageContent |-> Head(responses).body,
                  metadata |-> WithStatus(meta, Head(responses).code)]>>
          ELSE <<>>)
       \o ResponseDocs(Tail(responses), meta)

BodyDocs(ep, meta) ==
  IF ReqBodyRaw(ep) # <<>>
    THEN <<[pageContent |-> ReqBodyRaw(ep), metadata |-> WithType(meta, "body")]>>
    ELSE <<>>

DescDocs(ep, meta, enhancedDesc) ==
  IF HasDescription(ep)
    THEN <<[pageContent |-> enhancedDesc,
            metadata |-> WithType(meta, "description")]>>
    ELSE <<>>

\* the documents one iteration of the loop pushes; enhancedDesc is what
\* enhanceDescription returned (unused when there is no description)
EndpointDocsBodyFirst(ep, company, enhancedDesc) ==
  LET meta == BaseMeta(ep, company)
  IN BodyDocs(ep, meta) \o DescDocs(ep, meta, enhancedDesc)
       \o ResponseDocs(ep.response, meta)

EndpointDocs(ep, company, enhancedDesc) ==
  LET meta == BaseMeta(ep, company)
  IN DescDocs(ep, meta, enhancedDesc) \o BodyDocs(ep, meta)
       \o ResponseDocs(ep.response, meta)

(***************************************************************************)
(* IngestionTool.enhanceDescription: reply is the outcome of llm.invoke,   *)
(* [ok |-> BOOLEAN, content |-> text]                                      *)
(***************************************************************************)
enhanceDescriptionNoFallback(desc, reply) ==
  IF reply.ok THEN Trim(reply.content) ELSE <<>>

enhanceDescription(desc, reply) ==
  IF reply.ok THEN Trim(reply.content) ELSE desc

(***************************************************************************)
(* RecursiveCharacterTextSplitter.splitDocuments (library), with chunkSize *)
(* and chunkOverlap counted in tokens: a text of at most ChunkSize tokens  *)
(* is one chunk, a longer one is cut in slices of ChunkSize tokens, each   *)
(* starting ChunkOverlap tokens before the end of the previous one; an     *)
(* empty text gives no chunk.  Every chunk carries its document's metadata.*)
(***************************************************************************)
ChunkSize == 4

ChunkOverlap == 1

RECURSIVE SplitText(_)
SplitText(text) ==
  IF Trim(text) = <<>> THEN <<>>
  ELSE IF Len(text) <= ChunkSize THEN <<text>>
  ELSE <<SubSeq(text, 1, ChunkSize)>>
       \o SplitText(SubSeq(text, ChunkSize - ChunkOverlap + 1, Len(text)))

ChunksOf(doc) ==
  LET texts == SplitText(doc.pageContent)
  IN [i \in DOMAIN texts |-> [pageContent |-> texts[i], metadata |-> doc.metadata]]

RECURSIVE SplitDocuments(_)
SplitDocuments(docs) ==
  IF docs = <<>> THEN <<>>
  ELSE ChunksOf(Head(docs)) \o SplitDocuments(Tail(docs))

(***************************************************************************)
(* OpenAIEmbeddings.embedDocuments (service): one vector per text, in the  *)
(* order of the texts; a vector is identified by the text it embeds.       *)
(***************************************************************************)
Vec(text) == [of |-> text]

EmbedDocuments(texts) == [i \in DOMAIN texts |-> Vec(texts[i])]

\* const data = chunks.map((chunk, i) => ({text, metadata, vector: vectors[i]}))
DataRowsShifted(chunks, vectors) ==
  [i \in DOMAIN chunks |->
     [text |-> chunks[i].pageContent, metadata |-> chunks[i].metadata,
      vector |-> vectors[(i % Len(chunks)) + 1]]]

DataRows(chunks, vectors) ==
  [i \in DOMAIN chunks |->
     [text |-> chunks[i].pageContent, metadata |-> chunks[i].metadata,
      vector |-> vectors[i]]]

(***************************************************************************)
(* Postman collections the user can pick (the file at postmanPath).        *)
(* An item carries the endpoint fields the pipeline reads.                 *)
(***************************************************************************)
Item(id, name) ==
  [id |-> id, itemKind |-> "undefined", item |-> <<>>, name |-> name,
   hasRequest |-> FALSE, url |-> NoUrl, method |-> <<>>, descKind |-> "none",
   descText |-> <<>>, bodyRaw |-> <<>>, response |-> <<>>]

Folder(id, name, children) ==
  [Item(id, name) EXCEPT !.itemKind = "array", !.item = children]

UrlString == [NoUrl EXCEPT !.kind = "string", !.str = <<"http://acme/ping">>]

UrlRaw == [NoUrl EXCEPT !.kind = "object", !.raw = <<"{{base}}/orders">>]

UrlParts ==
  [NoUrl EXCEPT !.kind = "object", !.host = << <<"api">>, <<"acme">> >>,
                !.path = << <<"v1">>, <<"orders">> >>]

EpCreate ==
  [Item(<<1, 1>>, <<" ", "Create", " ", "Order", " ">>) EXCEPT
     !.hasRequest = TRUE, !.url = UrlParts, !.method = <<"post">>,
     !.descKind = "string", !.descText = <<"creates">>,
     !.bodyRaw = <<"{", "}">>,
     !.response = << [body |-> <<"ok">>, code |-> 200],
                     [body |-> <<>>, code |-> 404] >>]

EpPing ==
  [Item(<<2>>, <<"Ping">>) EXCEPT !.response = << [body |-> <<"pong">>, code |-> 200] >>]

EpGet ==
  [Item(<<1>>, <<"Get", " ", "Order">>) EXCEPT
     !.hasRequest = TRUE, !.url = UrlString, !.method = <<"Get">>,
     !.descKind = "object",
     !.response = << [body |-> <<"order">>, code |-> 200] >>]

FileBad == [ok |-> FALSE, item |-> <<>>]

FileEmpty == [ok |-> TRUE, item |-> <<>>]

FileNested == [ok |-> TRUE, item |-> << Folder(<<1>>, <<"Orders">>, <<EpCreate>>) >>]

FileFlat == [ok |-> TRUE, item |-> <<EpGet, EpPing>>]

Files == {FileBad, FileEmpty, FileNested, FileFlat}

\* codepilot.ingestDocs: companyName.toLowerCase().replace(/[^a-z0-9]/g, "_")
LowerTok(tok) ==
  CASE tok = "Acme" -> "acme"
    [] tok = "Beta" -> "beta"
    [] tok \in {" ", "-", "!", "."} -> "_"
    [] OTHER -> tok

SafeCompanyName(company) == [i \in DOMAIN company |-> LowerTok(company[i])]

CollectionNameOf(company) == <<"codepilot_">> \o SafeCompanyName(company)

CompanyName == <<"Acme">>

AcmeDocs == CollectionNameOf(CompanyName)

BetaDocs == CollectionNameOf(<<"Beta">>)

Collections == {AcmeDocs, BetaDocs}

ApiKeys == {<<>>, <<"sk">>}

\* outcomes of llm.invoke inside enhanceDescription
LlmReplies ==
  {[ok |-> TRUE, content |-> <<" ", "used for checkout", "\n">>],
   [ok |-> TRUE, content |-> <<" ">>],
   [ok |-> FALSE, content |-> <<>>]}

Procs == {"r1", "r2"}

MaxAttempts == 2

VARIABLES
  files,             \* the Postman files the user can pick
  dirs,              \* the directories under storagePath
  tables,            \* the vector table of each collection: [exists, rows]
  run,               \* per invocation: position and locals of the pipeline
  autocompleteItems, \* extension.ts: the module-level completion items
  attempts,          \* invocations started so far
  codeCache,         \* generated_code: cache file name -> file content
  cacheOrigin,       \* history: cache file name -> the request it was saved for
  document,          \* the text of the active editor
  cmd,               \* per editor command in progress: position and locals
  commands           \* editor commands started so far

queryVars == <<codeCache, cacheOrigin, document, cmd, commands>>

\* editor commands are async handlers: a second one can start while the
\* first awaits
CmdProcs == {"k1", "k2"}

NoTable == [exists |-> FALSE, rows |-> <<>>]

IdleCmd ==
  [pc |-> "idle", kind |-> "none", endpointName |-> <<>>, collectionName |-> <<>>,
   language |-> <<>>, apiKey |-> <<>>, selectedText |-> <<>>,
   userInstruction |-> <<>>, query |-> <<>>, results |-> <<>>, prompt |-> <<>>,
   calls |-> <<>>, error |-> <<>>, value |-> <<>>, shown |-> <<>>,
   cachedFiles |-> {}, selected |-> <<>>, confirmation |-> "none"]

InitialDocument == <<"order", "=", "createOrder">>

QueryIdle ==
  /\ codeCache = <<>>
  /\ cacheOrigin = <<>>
  /\ document = InitialDocument
  /\ cmd = [k \in CmdProcs |-> IdleCmd]
  /\ commands = 0

IdleRun ==
  [pc |-> "idle", viaCmd |-> FALSE, apiKey |-> <<>>, file |-> FileEmpty,
   collectionName |-> AcmeDocs,
   sawStore |-> FALSE, endpoints |-> <<>>, idx |-> 0, documents |-> <<>>,
   enhanceFailed |-> {}, chunks |-> <<>>, vectors |-> <<>>, result |-> "none",
   log |-> <<>>, message |-> "none"]

IngestInit ==
  /\ files = Files
  /\ dirs = {}
  /\ tables = [c \in Collections |-> NoTable]
  /\ run = [p \in Procs |-> IdleRun]
  /\ autocompleteItems = <<>>
  /\ attempts = 0
  /\ QueryIdle

Logged(r, events) == [r EXCEPT !.log = @ \o events]

\* ingestPostmanCollection / run return: the promise resolves with res
Resolve(r, res) == [r EXCEPT !.result = res, !.pc = "resolved"]

\* an exception reaches a catch block of run or ingestPostmanCollection
Uncaught(r) == Resolve(r, "thrown")

Caught(r) == Resolve(r, "false")

(***************************************************************************)
(* createDocumentsFromEndpoints: the for loop from endpoint i on, up to    *)
(* its next await (llm.invoke in enhanceDescription) or its return, where  *)
(* run goes on to await textSplitter.splitDocuments.                       *)
(***************************************************************************)
RECURSIVE LoopFrom(_, _)
LoopFrom(r, i) ==
  IF i > Len(r.endpoints)
    THEN [Logged(r, <<"docs.ret", "split.call">>) EXCEPT !.pc = "split", !.idx = i]
  ELSE IF HasDescription(r.endpoints[i])
    THEN [Logged(r, <<"llm.call">>) EXCEPT !.pc = "llm", !.idx = i]
  ELSE LoopFrom([r EXCEPT !.documents =
                    @ \o EndpointDocs(r.endpoints[i], CompanyName, <<>>)], i + 1)

Startable(p) == run[p].pc \in {"idle", "done"} /\ attempts < MaxAttempts

\* fs.existsSync(path.join(storagePath, collectionName))
StoreDir(c) == c \in dirs

Started(via, key, f) ==
  [IdleRun EXCEPT !.viaCmd = via, !.apiKey = key, !.file = f,
                  !.collectionName = CollectionNameOf(CompanyName),
                  !.sawStore = StoreDir(CollectionNameOf(CompanyName))]

\* the invocation is over: its locals are gone, its outcome stays visible
Finished(r, msg) ==
  [IdleRun EXCEPT !.pc = "done", !.viaCmd = r.viaCmd, !.result = r.result,
                  !.message = msg]

\* codepilot.ingestDocs: a dialog is dismissed, nothing happens
CmdCancelled(p) ==
  /\ Startable(p)
  /\ attempts' = attempts + 1
  /\ run' = [run EXCEPT ![p] = Finished(Started(TRUE, <<>>, FileEmpty), "none")]
  /\ UNCHANGED <<queryVars, files, dirs, tables, autocompleteItems>>

\* codepilot.ingestDocs: no API key in the settings
CmdNoKey(p) ==
  /\ Startable(p)
  /\ attempts' = attempts + 1
  /\ \E f \in files :
       run' = [run EXCEPT ![p] = Finished(Started(TRUE, <<>>, f), "nokey")]
  /\ UNCHANGED <<queryVars, files, dirs, tables, autocompleteItems>>

\* ingestPostmanCollection with an empty key: the constructor throws
CallNoKey(p) ==
  /\ Startable(p)
  /\ attempts' = attempts + 1
  /\ \E f \in files :
       run' = [run EXCEPT ![p] = Caught(Started(FALSE, <<>>, f))]
  /\ UNCHANGED <<queryVars, files, dirs, tables, autocompleteItems>>

\* IngestionTool.run up to its first await
RunSkipExisting(r) == Resolve(r, "true")

RunFromFile(r) ==
  IF ~r.file.ok
    THEN Caught(Logged(r, <<"read", "read.throw">>))
    ELSE LoopFrom([Logged(r, <<"read", "flatten", "docs.call">>) EXCEPT
                     !.endpoints = flattenEndpoints(r.file.item)], 1)

RunBeginAlways(r) == RunFromFile(r)

RunBegin(r) ==
  IF StoreDir(r.collectionName) THEN RunSkipExisting(r) ELSE RunFromFile(r)

IngestCall(p) ==
  /\ Startable(p)
  /\ attempts' = attempts + 1
  /\ \E via \in BOOLEAN, f \in files :
       run' = [run EXCEPT ![p] = RunBegin(Started(via, <<"sk">>, f))]
  /\ UNCHANGED <<queryVars, files, dirs, tables, autocompleteItems>>

\* llm.invoke resolves or rejects
LlmReturn(p) ==
  /\ run[p].pc = "llm"
  /\ \E reply \in LlmReplies :
       LET r == run[p]
           ep == r.endpoints[r.idx]
           enhancedDesc == enhanceDescription(ContentWithUrl(ep), reply)
           pushed == [Logged(r, <<"llm.ret">>) EXCEPT
                        !.documents = @ \o EndpointDocs(ep, CompanyName, enhancedDesc),
                        !.enhanceFailed = IF reply.ok THEN @ ELSE @ \cup {r.idx}]
       IN run' = [run EXCEPT ![p] = LoopFrom(pushed, r.idx + 1)]
  /\ UNCHANGED <<queryVars, files, dirs, tables, autocompleteItems, attempts>>

\* createAndSaveLanceDBStore up to its first await
CreateAndSaveBeginTableFirst(r) ==
  [Logged(r, IF StoreDir(r.collectionName) THEN <<"rm", "connect.call">>
             ELSE <<"connect.call">>)
     EXCEPT !.pc = "connect"]

CreateAndSaveBegin(r) ==
  LET r1 == IF StoreDir(r.collectionName) THEN Logged(r, <<"rm">>) ELSE r
  IN IF r1.chunks = <<>>
       THEN Resolve(r1, "true")
       ELSE [Logged(r1, <<"embed.call">>) EXCEPT !.pc = "embed"]

SplitReturn(p) ==
  /\ run[p].pc = "split"
  /\ LET r == [Logged(run[p], <<"split.ret">>) EXCEPT
                 !.chunks = SplitDocuments(run[p].documents)]
     IN run' = [run EXCEPT ![p] = CreateAndSaveBegin(r)]
  /\ dirs' = dirs \ {run[p].collectionName}
  /\ tables' = IF StoreDir(run[p].collectionName)
                 THEN [tables EXCEPT ![run[p].collectionName] = NoTable]
                 ELSE tables
  /\ UNCHANGED <<queryVars, files, autocompleteItems, attempts>>

SplitThrows(p) ==
  /\ run[p].pc = "split"
  /\ run' = [run EXCEPT ![p] = Caught(Logged(run[p], <<"split.throw">>))]
  /\ UNCHANGED <<queryVars, files, dirs, tables, autocompleteItems, attempts>>

Texts(chunks) == [i \in DOMAIN chunks |-> chunks[i].pageContent]

EmbedReturn(p) ==
  /\ run[p].pc = "embed"
  /\ run' = [run EXCEPT ![p] =
               [Logged(run[p], <<"embed.ret", "connect.call">>) EXCEPT
                  !.vectors = EmbedDocuments(Texts(run[p].chunks)),
                  !.pc = "connect"]]
  /\ UNCHANGED <<queryVars, files, dirs, tables, autocompleteItems, attempts>>

EmbedThrows(p) ==
  /\ run[p].pc = "embed"
  /\ run' = [run EXCEPT ![p] = Caught(Logged(run[p], <<"embed.throw">>))]
  /\ UNCHANGED <<queryVars, files, dirs, tables, autocompleteItems, attempts>>

\* connect(dbPath) resolves: the database directory exists from here on
ConnectReturn(p) ==
  /\ run[p].pc = "connect"
  /\ run' = [run EXCEPT ![p] =
               [Logged(run[p], <<"connect.ret", "createTable.call">>) EXCEPT
                  !.pc = "createTable"]]
  /\ dirs' = dirs \cup {run[p].collectionName}
  /\ UNCHANGED <<queryVars, files, tables, autocompleteItems, attempts>>

ConnectThrows(p) ==
  /\ run[p].pc = "connect"
  /\ run' = [run EXCEPT ![p] = Caught(Logged(run[p], <<"connect.throw">>))]
  /\ UNCHANGED <<queryVars, files, dirs, tables, autocompleteItems, attempts>>

\* db.createTable(collectionName, data) resolves
CreateTableReturn(p) ==
  /\ run[p].pc = "createTable"
  /\ ~tables[run[p].collectionName].exists
  /\ run' = [run EXCEPT ![p] = Resolve(Logged(run[p], <<"createTable.ret">>), "true")]
  /\ dirs' = dirs \cup {run[p].collectionName}
  /\ tables' = [tables EXCEPT ![run[p].collectionName] =
                  [exists |-> TRUE, rows |-> DataRows(run[p].chunks, run[p].vectors)]]
  /\ UNCHANGED <<queryVars, files, autocompleteItems, attempts>>

\* db.createTable rejects (always when the table already exists)
CreateTableThrows(p) ==
  /\ run[p].pc = "createTable"
  /\ run' = [run EXCEPT ![p] = Caught(Logged(run[p], <<"createTable.throw">>))]
  /\ UNCHANGED <<queryVars, files, dirs, tables, autocompleteItems, attempts>>

\* back in the caller of ingestPostmanCollection
CmdSuccess(p) ==
  /\ run[p].pc = "resolved" /\ run[p].viaCmd /\ run[p].result = "true"
  /\ run' = [run EXCEPT ![p].pc = "refresh", ![p].message = "success"]
  /\ UNCHANGED <<queryVars, files, dirs, tables, autocompleteItems, attempts>>

CmdFailure(p) ==
  /\ run[p].pc = "resolved" /\ run[p].viaCmd /\ run[p].result = "false"
  /\ run' = [run EXCEPT ![p] = Finished(run[p], "Ingestion failed")]
  /\ UNCHANGED <<queryVars, files, dirs, tables, autocompleteItems, attempts>>

CallReturns(p) ==
  /\ run[p].pc = "resolved" /\ ~run[p].viaCmd
  /\ run' = [run EXCEPT ![p] = Finished(run[p], "none")]
  /\ UNCHANGED <<queryVars, files, dirs, tables, autocompleteItems, attempts>>

\* refreshAutocompleteItems: one item per distinct non-empty metadata.name,
\* over the collection directories in the order readdirSync lists them
CollectionOrder == <<AcmeDocs, BetaDocs>>

RECURSIVE ItemsOfRows(_, _, _)
ItemsOfRows(rows, c, seen) ==
  IF rows = <<>> THEN <<>>
  ELSE LET n == Head(rows).metadata.name
       IN IF n # <<>> /\ n \notin seen
            THEN <<[endpointName |-> n, collectionName |-> c]>>
                 \o ItemsOfRows(Tail(rows), c, seen \cup {n})
            ELSE ItemsOfRows(Tail(rows), c, seen)

RECURSIVE ItemsFrom(_, _)
ItemsFrom(i, items) ==
  IF i > Len(CollectionOrder) THEN items
  ELSE LET c == CollectionOrder[i]
           seen == {items[k].endpointName : k \in DOMAIN items}
       IN ItemsFrom(i + 1,
            IF c \in dirs /\ tables[c].exists
              THEN items \o ItemsOfRows(tables[c].rows, c, seen)
              ELSE items)

Refresh(p) ==
  /\ run[p].pc = "refresh"
  /\ run' = [run EXCEPT ![p] = Finished(run[p], run[p].message)]
  /\ autocompleteItems' = ItemsFrom(1, <<>>)
  /\ UNCHANGED <<queryVars, files, dirs, tables, attempts>>

\* the user deletes the store folder by hand
UserDeletesStore ==
  /\ \E c \in dirs \cap Collections :
       /\ dirs' = dirs \ {c}
       /\ tables' = [tables EXCEPT ![c] = NoTable]
  /\ UNCHANGED <<queryVars, files, run, autocompleteItems, attempts>>

IngestNext ==
  \/ \E p \in Procs : CmdCancelled(p)
  \/ \E p \in Procs : CmdNoKey(p)
  \/ \E p \in Procs : CallNoKey(p)
  \/ \E p \in Procs : IngestCall(p)
  \/ \E p \in Procs : LlmReturn(p)
  \/ \E p \in Procs : SplitReturn(p)
  \/ \E p \in Procs : SplitThrows(p)
  \/ \E p \in Procs : EmbedReturn(p)
  \/ \E p \in Procs : EmbedThrows(p)
  \/ \E p \in Procs : ConnectReturn(p)
  \/ \E p \in Procs : ConnectThrows(p)
  \/ \E p \in Procs : CreateTableReturn(p)
  \/ \E p \in Procs : CreateTableThrows(p)
  \/ \E p \in Procs : CmdSuccess(p)
  \/ \E p \in Procs : CmdFailure(p)
  \/ \E p \in Procs : CallReturns(p)
  \/ \E p \in Procs : Refresh(p)
  \/ UserDeletesStore

vars == <<files, dirs, tables, run, autocompleteItems, attempts, codeCache,
          cacheOrigin, document, cmd, commands>>

Init == IngestInit

Next == IngestNext

Spec == Init /\ [][Next]_vars

(***************************************************************************)
(* Properties of the ingestion pipeline                                    *)
(***************************************************************************)
Has(log, e) == \E i \in DOMAIN log : log[i] = e

Stage(e) ==
  CASE e \in {"read", "read.throw"} -> 1
    [] e = "flatten" -> 2
    [] e \in {"docs.call", "llm.call", "llm.ret", "docs.ret"} -> 3
    [] e \in {"split.call", "split.ret", "split.throw"} -> 4
    [] e \in {"rm", "embed.call", "embed.ret", "embed.throw"} -> 5
    [] OTHER -> 6

\* the event that must have completed before e may start
Previous(e) ==
  CASE e = "flatten" -> "read"
    [] e = "docs.call" -> "flatten"
    [] e = "llm.call" -> "docs.call"
    [] e = "split.call" -> "docs.ret"
    [] e = "embed.call" -> "split.ret"
    [] e = "connect.call" -> "embed.ret"
    [] e = "createTable.call" -> "connect.ret"
    [] OTHER -> e

Calls == {"llm.call", "split.call", "embed.call", "connect.call", "createTable.call"}

Completion(e) ==
  CASE e = "llm.call" -> {"llm.ret"}
    [] e = "split.call" -> {"split.ret", "split.throw"}
    [] e = "embed.call" -> {"embed.ret", "embed.throw"}
    [] e = "connect.call" -> {"connect.ret", "connect.throw"}
    [] OTHER -> {"createTable.ret", "createTable.throw"}

InPipelineOrder(r) ==
  /\ \A i, j \in DOMAIN r.log : i < j => Stage(r.log[i]) <= Stage(r.log[j])
  /\ \A j \in DOMAIN r.log :
       Previous(r.log[j]) # r.log[j] => \E i \in 1..(j - 1) : r.log[i] = Previous(r.log[j])
  /\ \A i \in DOMAIN r.log :
       (r.log[i] \in Calls /\ i < Len(r.log)) => r.log[i + 1] \in Completion(r.log[i])
  /\ Has(r.log, "connect.call") =>
       /\ r.chunks # <<>>
       /\ Len(r.vectors) = Len(r.chunks)

\* C1: a run that finds no store directory reads and parses the file, flattens,
\* creates the documents (with their enrichment calls), splits, embeds and only
\* then creates the table, each step starting after the previous one completed;
\* the table is never created before the vectors of all chunks are back.
C1_StepsInOrder ==
  /\ \A p \in Procs : InPipelineOrder(run[p])
  /\ \A c \in Collections :
       tables[c].exists =>
         \A i \in DOMAIN tables[c].rows :
           tables[c].rows[i].vector = Vec(tables[c].rows[i].text)

C1_Witness ==
  \E p \in Procs :
    /\ ~run[p].sawStore
    /\ run[p].result = "true"
    /\ Has(run[p].log, "llm.ret")
    /\ Has(run[p].log, "createTable.ret")
    /\ tables[run[p].collectionName].exists

RunCalled(r) == r.pc \notin {"idle", "done"} /\ r.apiKey # <<>>

\* C4: a run called while the store directory exists returns true, reads no
\* file, calls neither the chat model nor the embedding service and leaves the
\* store as it is; a run ingests only when it found no directory.
C4_ExistingStoreSkipped ==
  /\ [](\A p \in Procs :
          /\ (RunCalled(run[p]) /\ run[p].sawStore) =>
               /\ run[p].log = <<>>
               /\ run[p].result = "true"
               /\ run[p].documents = <<>> /\ run[p].vectors = <<>>
          /\ run[p].log # <<>> => ~run[p].sawStore)
  /\ [][\A p \in Procs :
          (run[p].pc \in {"idle", "done"} /\ RunCalled(run'[p])
             /\ StoreDir(run'[p].collectionName)) =>
            /\ run'[p].pc = "resolved" /\ run'[p].result = "true"
            /\ run'[p].log = <<>>
            /\ dirs' = dirs /\ tables' = tables]_vars

C4_Witness ==
  \E p \in Procs :
    /\ RunCalled(run[p]) /\ run[p].sawStore
    /\ run[p].pc = "resolved" /\ run[p].result = "true"
    /\ ~run[p].file.ok
    /\ tables[run[p].collectionName].exists

Throws == {"read.throw", "split.throw", "embed.throw", "connect.throw", "createTable.throw"}

Threw(r) == \E e \in Throws : Has(r.log, e)

\* C5 as stated: ingestPostmanCollection resolves to a boolean, and to false
\* whenever the key is empty, the file cannot be read or parsed, or splitting,
\* embedding or table creation fails.
C5_Original ==
  \A p \in Procs :
    run[p].pc = "resolved" =>
      /\ run[p].result \in {"true", "false"}
      /\ (run[p].apiKey = <<>> \/ ~run[p].file.ok \/ Threw(run[p])) =>
           run[p].result = "false"

\* C5 (amended): ingestPostmanCollection resolves to a boolean; it resolves to
\* false whenever the key is empty, or, no store directory existing when run is
\* called, the file cannot be read or parsed, or splitting, embedding or table
\* creation fails; the command then shows 'Ingestion failed' and does not
\* refresh the autocomplete items.
C5_NeverThrows ==
  /\ [](\A p \in Procs :
          /\ run[p].pc \in {"resolved", "refresh", "done"} =>
               run[p].result \in {"true", "false", "none"}
          /\ run[p].pc = "resolved" =>
               /\ run[p].result \in {"true", "false"}
               /\ (\/ run[p].apiKey = <<>>
                   \/ (~run[p].sawStore /\ ~run[p].file.ok)
                   \/ Threw(run[p])) => run[p].result = "false"
          /\ run[p].pc = "refresh" => run[p].result = "true")
  /\ [][\A p \in Procs :
          (run[p].pc = "resolved" /\ run[p].viaCmd /\ run[p].result = "false"
             /\ run'[p] # run[p]) =>
            /\ run'[p].message = "Ingestion failed"
            /\ run'[p].pc = "done"
            /\ autocompleteItems' = autocompleteItems]_vars

C5_Witness ==
  \E p, q \in Procs :
    /\ run[p].pc = "done" /\ run[p].message = "Ingestion failed"
    /\ run[q].pc = "resolved" /\ Has(run[q].log, "embed.throw")
    /\ run[q].result = "false"

DescriptionDocOf(ep) ==
  [pageContent |-> <<"Endpoint URL: ">> \o constructUrlFromPostman(ReqUrl(ep))
                     \o <<"\n\n">> \o ep.descText,
   metadata |-> WithType(BaseMeta(ep, CompanyName), "description")]

\* C6: when the chat-model call of enhanceDescription fails for an endpoint its
\* description document is still emitted with 'Endpoint URL: <url>\n\n
\* <description>' as content, the remaining endpoints are processed and the run
\* does not fail because of it.
C6_EnrichmentNonFatal ==
  /\ [](\A p \in Procs :
          /\ \A i \in run[p].enhanceFailed :
               \E d \in DOMAIN run[p].documents :
                 run[p].documents[d] = DescriptionDocOf(run[p].endpoints[i])
          /\ (run[p].enhanceFailed # {} /\ run[p].pc = "resolved" /\ ~Threw(run[p])) =>
               run[p].result = "true"
          /\ (run[p].enhanceFailed # {} /\ Has(run[p].log, "docs.ret")) =>
               /\ run[p].idx = Len(run[p].endpoints) + 1
               /\ \A i \in DOMAIN run[p].endpoints :
                    \A k \in DOMAIN run[p].endpoints[i].response :
                      run[p].endpoints[i].response[k].body # <<>> =>
                        \E d \in DOMAIN run[p].documents :
                          /\ run[p].documents[d].pageContent =
                               run[p].endpoints[i].response[k].body
                          /\ run[p].documents[d].metadata.name =
                               Trim(run[p].endpoints[i].name))
  /\ [][\A p \in Procs :
          (run[p].pc = "llm" /\ run'[p] # run[p]) =>
            /\ run'[p].pc \in {"llm", "split"}
            /\ run'[p].result = "none"
            /\ run'[p].idx > run[p].idx]_vars

C6_Witness ==
  \E p \in Procs :
    /\ run[p].enhanceFailed # {}
    /\ Len(run[p].endpoints) > 1
    /\ run[p].pc = "resolved" /\ run[p].result = "true"
    /\ Has(run[p].log, "createTable.ret")

\* C8: createAndSaveLanceDBStore writes one record per chunk, in chunk order;
\* record i holds the text and metadata of chunk i and the vector the service
\* returned at position i, never the vector of another chunk.
C8_RecordsMatchChunks ==
  [][\A p \in Procs :
       (run[p].pc = "createTable" /\ run'[p].result = "true") =>
         LET written == tables'[run[p].collectionName]
         IN /\ written.exists
            /\ Len(written.rows) = Len(run[p].chunks)
            /\ \A i \in DOMAIN written.rows :
                 /\ written.rows[i].text = run[p].chunks[i].pageContent
                 /\ written.rows[i].metadata = run[p].chunks[i].metadata
                 /\ written.rows[i].vector = run[p].vectors[i]
                 /\ written.rows[i].vector = Vec(run[p].chunks[i].pageContent)]_vars

C8_Witness ==
  /\ tables[AcmeDocs].exists
  /\ Len(tables[AcmeDocs].rows) >= 3
  /\ \E i, j \in DOMAIN tables[AcmeDocs].rows :
       tables[AcmeDocs].rows[i].text # tables[AcmeDocs].rows[j].text
  /\ \E p \in Procs : run[p].pc = "resolved" /\ Has(run[p].log, "createTable.ret")

(***************************************************************************)
(* The pure steps of run (flattenEndpoints, createDocumentsFromEndpoints)  *)
(* on a wide range of collections: one invocation, on a file drawn from    *)
(* item trees three levels deep and from endpoints with every combination  *)
(* of the fields the document loop reads.                                  *)
(***************************************************************************)
ShortLists(S) == {<<>>} \cup {<<a>> : a \in S} \cup {<<a, b>> : a, b \in S}

\* every item gets its position in the tree as id
RECURSIVE Relabel(_, _)
Relabel(items, prefix) ==
  [i \in DOMAIN items |->
     [items[i] EXCEPT !.id = prefix \o <<i>>,
                      !.item = Relabel(items[i].item, prefix \o <<i>>)]]

Level0 == {Item(<<>>, <<"ep">>), [Item(<<>>, <<"ep">>) EXCEPT !.itemKind = "string"]}

Level1 == Level0 \cup {Folder(<<>>, <<"dir">>, k) : k \in ShortLists(Level0)}

Level2 == Level0 \cup {Folder(<<>>, <<"dir">>, k) : k \in ShortLists(Level1)}

TreeFiles == {[ok |-> TRUE, item |-> Relabel(k, <<>>)] : k \in ShortLists(Level2)}

UrlNoHost == [NoUrl EXCEPT !.kind = "object", !.protocol = <<"http">>,
                           !.path = << <<"v1">> >>]

UrlEmptyString == [NoUrl EXCEPT !.kind = "string"]

ResponseLists ==
  {<<>>,
   << [body |-> <<"ok">>, code |-> 200] >>,
   << [body |-> <<>>, code |-> 404], [body |-> <<"a">>, code |-> 200],
      [body |-> <<"b">>, code |-> 201] >>}

EndpointNamesPool == {<<>>, <<" ", "List", " ", "Orders", "\n">>}

BareEndpoints ==
  {[Item(<<1>>, n) EXCEPT !.response = rs] : n \in EndpointNamesPool, rs \in ResponseLists}

RequestEndpoints ==
  {[Item(<<1>>, n) EXCEPT !.hasRequest = TRUE, !.url = u, !.method = m,
                          !.descKind = d[1], !.descText = d[2], !.bodyRaw = b,
                          !.response = rs] :
     n \in EndpointNamesPool,
     u \in {NoUrl, UrlEmptyString, UrlString, UrlRaw, UrlParts, UrlNoHost},
     m \in {<<>>, <<"post">>},
     d \in {<<"none", <<>>>>, <<"string", <<>>>>, <<"string", <<"lists">>>>,
            <<"object", <<>>>>, <<"object", <<"lists">>>>},
     b \in {<<>>, <<"{}">>},
     rs \in ResponseLists}

DocFiles ==
  {[ok |-> TRUE, item |-> <<e>>] : e \in BareEndpoints \cup RequestEndpoints}
  \cup {[ok |-> TRUE, item |-> Relabel(<<a, b>>, <<>>)] :
          a, b \in {EpCreate, EpGet, EpPing, Item(<<>>, <<"Empty">>)}}

PureInit ==
  /\ files \in {{f} : f \in TreeFiles \cup DocFiles}
  /\ dirs = {}
  /\ tables = [c \in Collections |-> NoTable]
  /\ run = [p \in Procs |-> IdleRun]
  /\ autocompleteItems = <<>>
  /\ attempts = 0
  /\ QueryIdle

PureNext == IngestCall("r1") \/ LlmReturn("r1")

SpecPure == PureInit /\ [][PureNext]_vars

RECURSIVE Nodes(_)
Nodes(items) ==
  UNION {{items[i]} \cup (IF items[i].itemKind = "array" THEN Nodes(items[i].item) ELSE {})
           : i \in DOMAIN items}

RECURSIVE LexLess(_, _)
LexLess(a, b) ==
  IF a = <<>> THEN b # <<>>
  ELSE IF b = <<>> THEN FALSE
  ELSE IF Head(a) # Head(b) THEN Head(a) < Head(b)
  ELSE LexLess(Tail(a), Tail(b))

Flattened(r) == Has(r.log, "flatten")

\* C7: flattenEndpoints returns exactly the leaf items of the tree (items whose
\* 'item' field is not an array), each once, in depth-first left-to-right order;
\* no folder appears in the output and an empty folder contributes nothing.
C7_FlattenLeaves ==
  \A p \in Procs :
    Flattened(run[p]) =>
      LET out == run[p].endpoints
          all == Nodes(run[p].file.item)
      IN /\ \A i \in DOMAIN out : out[i] \in all /\ out[i].itemKind # "array"
         /\ \A n \in all :
              n.itemKind # "array" => Cardinality({i \in DOMAIN out : out[i] = n}) = 1
         /\ \A i, j \in DOMAIN out : i < j => LexLess(out[i].id, out[j].id)

C7_Witness ==
  \E p \in Procs :
    /\ Flattened(run[p])
    /\ Len(run[p].endpoints) = 3
    /\ \E i \in DOMAIN run[p].endpoints : Len(run[p].endpoints[i].id) = 3
    /\ \E i \in DOMAIN run[p].endpoints : run[p].endpoints[i].itemKind = "string"
    /\ \E n \in Nodes(run[p].file.item) : n.itemKind = "array" /\ n.item = <<>>

DescTruthy(ep) ==
  ep.hasRequest /\ (ep.descKind = "object" \/ (ep.descKind = "string" /\ ep.descText # <<>>))

BodyTruthy(ep) == ep.hasRequest /\ ep.bodyRaw # <<>>

TruthyResponses(ep) == SelectSeq(ep.response, LAMBDA res : res.body # <<>>)

DocCount(ep) ==
  (IF DescTruthy(ep) THEN 1 ELSE 0) + (IF BodyTruthy(ep) THEN 1 ELSE 0)
    + Len(TruthyResponses(ep))

RECURSIVE DocOffset(_, _)
DocOffset(eps, i) == IF i <= 1 THEN 0 ELSE DocOffset(eps, i - 1) + DocCount(eps[i - 1])

EndpointSegmentOk(ep, seg) ==
  LET nd == IF DescTruthy(ep) THEN 1 ELSE 0
      nb == IF BodyTruthy(ep) THEN 1 ELSE 0
      rs == TruthyResponses(ep)
  IN /\ DescTruthy(ep) => seg[1].metadata.type = "description"
     /\ BodyTruthy(ep) =>
          /\ seg[nd + 1].metadata.type = "body"
          /\ seg[nd + 1].pageContent = ep.bodyRaw
     /\ \A k \in DOMAIN rs :
          /\ seg[nd + nb + k].metadata.type = "response"
          /\ seg[nd + nb + k].pageContent = rs[k].body
          /\ seg[nd + nb + k].metadata.status_code = rs[k].code
     /\ \A d \in DOMAIN seg :
          /\ seg[d].metadata.name = Trim(ep.name)
          /\ seg[d].metadata.company = CompanyName
          /\ seg[d].metadata.method =
               (IF ep.hasRequest /\ ep.method = <<"post">> THEN <<"POST">>
                ELSE IF ep.hasRequest /\ ep.method = <<"Get">> THEN <<"GET">>
                ELSE <<>>)
          /\ seg[d].metadata.url = constructUrlFromPostman(ReqUrl(ep))
          /\ (ep.hasRequest /\ ep.url = UrlParts) =>
               seg[d].metadata.url =
                 <<"https", "://", "api", ".", "acme", "/", "v1", "/", "orders">>
          /\ (ep.hasRequest /\ ep.url = UrlNoHost) => seg[d].metadata.url = <<>>

\* C9: createDocumentsFromEndpoints emits, endpoint by endpoint in input
\* order, at most one 'description' document (request.description truthy), then
\* at most one 'body' document (request.body.raw truthy), then one 'response'
\* document per response with a truthy body, in response order; all documents
\* of an endpoint carry the trimmed name, the company, the upper-cased method
\* and the constructed URL; an endpoint with none of the three yields nothing.
C9_DocumentsPerEndpoint ==
  \A p \in Procs :
    Has(run[p].log, "docs.ret") =>
      LET eps == run[p].endpoints
          docs == run[p].documents
      IN /\ Len(docs) = DocOffset(eps, Len(eps) + 1)
         /\ \A i \in DOMAIN eps :
              EndpointSegmentOk(eps[i],
                SubSeq(docs, DocOffset(eps, i) + 1, DocOffset(eps, i + 1)))

C9_Witness ==
  \E p \in Procs :
    /\ Has(run[p].log, "docs.ret")
    /\ Len(run[p].endpoints) = 1
    /\ DescTruthy(run[p].endpoints[1]) /\ BodyTruthy(run[p].endpoints[1])
    /\ run[p].endpoints[1].url = UrlParts
    /\ Len(run[p].endpoints[1].response) = 3
    /\ Len(run[p].documents) = 4

(***************************************************************************)
(* Query time (extension.ts): codepilot.generateAndReplace with            *)
(* generateCodeLogic, codepilot.executeRefactor with                       *)
(* generateRefactoredCodeLogic, and the generated-code cache.              *)
(***************************************************************************)
\* what a completed ingestion of file f for a company leaves in the table,
\* every enrichment call answered by reply
RECURSIVE DocumentsOf(_, _, _)
DocumentsOf(eps, company, reply) ==
  IF eps = <<>> THEN <<>>
  ELSE EndpointDocs(Head(eps), company,
                    enhanceDescription(ContentWithUrl(Head(eps)), reply))
       \o DocumentsOf(Tail(eps), company, reply)

IngestedRows(f, company, reply) ==
  LET chunks == SplitDocuments(DocumentsOf(flattenEndpoints(f.item), company, reply))
  IN DataRows(chunks, EmbedDocuments(Texts(chunks)))

FileBeta ==
  [ok |-> TRUE, item |-> << [EpGet EXCEPT !.name = <<"Create", "-", "Order">>] >>]

AcmeRows == IngestedRows(FileNested, CompanyName, [ok |-> FALSE, content |-> <<>>])

BetaRows ==
  IngestedRows(FileBeta, <<"Beta">>, [ok |-> TRUE, content |-> <<"fetches an order">>])

GeneratedCodeDir == <<"generated_code">>

Languages == {<<"python">>, <<"go">>}

UserQueries == {<<>>, <<"with", " ", "retries">>}

SelectedTexts == {<<"createOrder", "(", "mock", ")">>}

UserInstructions == {<<"use", " ", "the", " ", "orders", " ", "API">>}

Fence == "(fence)"

\* a JS string can hold an unpaired surrogate; writing it as utf8 stores the
\* replacement character, and reading utf8 decodes ill-formed bytes to it
Unpaired == "(unpaired surrogate)"

IllFormed == "(ill-formed bytes)"

Replacement == "(U+FFFD)"

\* what the chat model answers at query time
CodeReplies ==
  {<<Fence, "python", "\n", "requests.post(url)", "\n", Fence>>,
   <<" ", "requests.post(url)", "\n">>,
   <<Fence, "\n", Fence>>,
   <<"print(", Unpaired, ")">>}

MaxCommands == 2

SearchLimitGenerate == 4

SearchLimitRefactor == 5

QueryInit ==
  /\ files = Files
  /\ \E acme \in BOOLEAN :
       /\ dirs = (IF acme THEN {AcmeDocs} ELSE {}) \cup {BetaDocs}
       /\ tables = [c \in Collections |->
                      IF c = BetaDocs THEN [exists |-> TRUE, rows |-> BetaRows]
                      ELSE IF acme THEN [exists |-> TRUE, rows |-> AcmeRows]
                      ELSE NoTable]
       \* activate() ends with refreshAutocompleteItems
       /\ autocompleteItems =
            (IF acme THEN ItemsOfRows(AcmeRows, AcmeDocs, {}) ELSE <<>>)
              \o ItemsOfRows(BetaRows, BetaDocs, {})
  /\ run = [p \in Procs |-> IdleRun]
  /\ attempts = 0
  /\ QueryIdle

IsWord(tok) ==
  tok \notin {" ", "\n", "-", "_", "(", ")", "=", Fence, ".", "!"}

\* endpointName.replace(/[^a-zA-Z0-9]/g, "_")
SafeEndpointName(endpointName) ==
  [i \in DOMAIN endpointName |->
     IF IsWord(endpointName[i]) THEN endpointName[i] ELSE "_"]

\* getCodeCacheFilePath: safeEndpointName + '_' + language + '.txt'
CacheFile(endpointName, language) ==
  SafeEndpointName(endpointName) \o <<"_">> \o language \o <<".txt">>

Utf8Encode(str) ==
  [i \in DOMAIN str |-> IF str[i] = Unpaired THEN Replacement ELSE str[i]]

Utf8Decode(bytes) ==
  [i \in DOMAIN bytes |-> IF bytes[i] = IllFormed THEN Replacement ELSE bytes[i]]

\* getCachedCode: the file's content, null when there is no such file
HasCacheFile(name) == name \in DOMAIN codeCache

getCachedCodeNever(endpointName, language) == <<>>

getCachedCode(endpointName, language) ==
  IF HasCacheFile(CacheFile(endpointName, language))
    THEN Utf8Decode(codeCache[CacheFile(endpointName, language)])
    ELSE <<>>

\* saveCodeToCache
saveCodeToCache(endpointName, language, code) ==
  (CacheFile(endpointName, language) :> Utf8Encode(code)) @@ codeCache

\* strips a leading fence with its language tag and line break, a trailing
\* line break and fence, then trims (lines 136-139)
StripLeadingFence(s) ==
  IF s # <<>> /\ Head(s) = Fence
    THEN LET a == Tail(s)
             b == IF a # <<>> /\ IsWord(Head(a)) THEN Tail(a) ELSE a
         IN IF b # <<>> /\ Head(b) = "\n" THEN Tail(b) ELSE b
    ELSE s

StripTrailingFence(s) ==
  IF s # <<>> /\ s[Len(s)] = Fence
    THEN LET a == SubSeq(s, 1, Len(s) - 1)
         IN IF a # <<>> /\ a[Len(a)] = "\n" THEN SubSeq(a, 1, Len(a) - 1) ELSE a
    ELSE s

StripFences(content) == Trim(StripTrailingFence(StripLeadingFence(Trim(content))))

Reverse(seq) == [i \in DOMAIN seq |-> seq[Len(seq) + 1 - i]]

Min(a, b) == IF a < b THEN a ELSE b

\* table.search(queryVector).limit(n).toArray(): the n nearest rows, nearest
\* first; which rows are nearest is up to the vectors
SearchResults(rows, limit) ==
  {SubSeq(ranked, 1, Min(limit, Len(rows))) : ranked \in {rows, Reverse(rows)}}

\* the double-quote character and the code fence of the texts
Quote == "(dq)"

ResultTexts(results) == [i \in DOMAIN results |-> results[i].text]

\* generateCodeLogic, line 131
GeneratePrompt(language, enrichedQuery, contextText) ==
  <<"Your task is to be a raw code generator. Based on the provided API documentation, generate a single, complete, and executable code snippet in ">>
    \o language \o <<". Your response will be directly executed as ">> \o language
    \o <<" code. Do NOT include any explanations, introductory text, or markdown code blocks like (fence). Real User Request: ", Quote>>
    \o enrichedQuery \o <<Quote, "\nGenerate the code now:">>

\* generateRefactoredCodeLogic, lines 189-209
RefactorPromptNoDocs(language, apiContextText, selectedText, userInstruction) ==
  <<"You are an expert code refactoring assistant. ... **API Documentation:**\n">>
    \o <<"\n---\n**User's Original Code to Refactor:**\n", Fence>>
    \o language \o <<"\n">> \o selectedText
    \o <<"\n", Fence, "\n---\n**User's Refactor Instruction:**\n", Quote>> \o userInstruction
    \o <<Quote, "\n---\n**Your Task:** Based on all the context above, generate the refactored code block in ">>
    \o language \o <<".\n**Final Output Rules:** ... Generate the refactored code now:">>

RefactorPrompt(language, apiContextText, selectedText, userInstruction) ==
  <<"You are an expert code refactoring assistant. ... **API Documentation:**\n">>
    \o apiContextText \o <<"\n---\n**User's Original Code to Refactor:**\n", Fence>>
    \o language \o <<"\n">> \o selectedText
    \o <<"\n", Fence, "\n---\n**User's Refactor Instruction:**\n", Quote>> \o userInstruction
    \o <<Quote, "\n---\n**Your Task:** Based on all the context above, generate the refactored code block in ">>
    \o language \o <<".\n**Final Output Rules:** ... Generate the refactored code now:">>

Call(op, text, limit) == [op |-> op, text |-> text, limit |-> limit]

Called(c, calls) == [c EXCEPT !.calls = @ \o calls]

Throw(c, message) == [c EXCEPT !.pc = "threw", !.error = message]

Return(c, value) == [c EXCEPT !.pc = "returned", !.value = value]

NoKeyGenerate == <<"OpenAI API Key is not set in settings.">>

NoKeyRefactor == <<"OpenAI API Key is not set.">>

NothingIngested == <<"No API documentation has been ingested yet.">>

CouldNotFind(endpointName) ==
  <<"Could not find documentation for '">> \o endpointName \o <<"'.">>

ServiceError == <<"request failed">>

CmdStartable(k) == cmd[k].pc \in {"idle", "done"} /\ commands < MaxCommands

\* codepilot.generateAndReplace and generateCodeLogic up to showInputBox
GenerateStart(k) ==
  /\ CmdStartable(k)
  /\ commands' = commands + 1
  /\ \E i \in DOMAIN autocompleteItems, language \in Languages, key \in ApiKeys,
        editor \in BOOLEAN :
       LET c == [IdleCmd EXCEPT !.kind = "generate",
                                !.endpointName = autocompleteItems[i].endpointName,
                                !.collectionName = autocompleteItems[i].collectionName,
                                !.language = language, !.apiKey = key]
           cachedCode == getCachedCode(c.endpointName, language)
       IN /\ cmd' = [cmd EXCEPT ![k] =
                       IF ~editor THEN [c EXCEPT !.pc = "done"]
                       ELSE IF cachedCode # <<>> THEN Return(c, cachedCode)
                       ELSE IF key = <<>> THEN Throw(c, NoKeyGenerate)
                       ELSE [c EXCEPT !.pc = "inputBox"]]
          /\ dirs' = IF editor THEN dirs \cup {GeneratedCodeDir} ELSE dirs
  /\ UNCHANGED <<files, tables, run, autocompleteItems, attempts, codeCache,
                 cacheOrigin, document>>

\* the input box is dismissed
GenerateDismissedEchoes(k) ==
  /\ cmd[k].kind = "generate" /\ cmd[k].pc = "inputBox"
  /\ cmd' = [cmd EXCEPT ![k] = Return(cmd[k], cmd[k].endpointName)]
  /\ UNCHANGED <<files, dirs, tables, run, autocompleteItems, attempts, codeCache,
                 cacheOrigin, document, commands>>

GenerateDismissed(k) ==
  /\ cmd[k].kind = "generate" /\ cmd[k].pc = "inputBox"
  /\ cmd' = [cmd EXCEPT ![k] = Return(cmd[k], <<>>)]
  /\ UNCHANGED <<files, dirs, tables, run, autocompleteItems, attempts, codeCache,
                 cacheOrigin, document, commands>>

\* the input box is answered; connect(dbPath) is awaited
GenerateInput(k) ==
  /\ cmd[k].kind = "generate" /\ cmd[k].pc = "inputBox"
  /\ \E userQuery \in UserQueries :
       cmd' = [cmd EXCEPT ![k] =
                 [Called(cmd[k], <<Call("connect", cmd[k].collectionName, 0)>>) EXCEPT
                    !.pc = "connect",
                    !.query = IF userQuery # <<>>
                                THEN cmd[k].endpointName \o <<" ">> \o userQuery
                                ELSE cmd[k].endpointName]]
  /\ UNCHANGED <<files, dirs, tables, run, autocompleteItems, attempts, codeCache,
                 cacheOrigin, document, commands>>

\* connect resolves (the directory exists from here on) and openTable is
\* awaited; openTable resolves and embedQuery is awaited, or it rejects
OpenTable(k) ==
  /\ cmd[k].pc = "connect"
  /\ dirs' = dirs \cup {cmd[k].collectionName}
  /\ cmd' = [cmd EXCEPT ![k] =
               IF tables[cmd[k].collectionName].exists
                 THEN [Called(cmd[k], <<Call("openTable", cmd[k].collectionName, 0),
                                        Call("embedQuery", cmd[k].query, 0)>>) EXCEPT
                         !.pc = "embed"]
                 ELSE Throw(Called(cmd[k],
                                   <<Call("openTable", cmd[k].collectionName, 0)>>),
                            <<"Table '">> \o cmd[k].collectionName
                              \o <<"' was not found">>)]
  /\ UNCHANGED <<files, tables, run, autocompleteItems, attempts, codeCache,
                 cacheOrigin, document, commands>>

\* embeddings.embedQuery resolves; table.search is awaited
EmbedQueryReturn(k) ==
  /\ cmd[k].pc = "embed"
  /\ cmd' = [cmd EXCEPT ![k] =
               [Called(cmd[k], <<Call("search", cmd[k].query,
                                      IF cmd[k].kind = "generate"
                                        THEN SearchLimitGenerate
                                        ELSE SearchLimitRefactor)>>) EXCEPT
                  !.pc = "search"]]
  /\ UNCHANGED <<files, dirs, tables, run, autocompleteItems, attempts, codeCache,
                 cacheOrigin, document, commands>>

EmbedQueryThrows(k) ==
  /\ cmd[k].pc = "embed"
  /\ cmd' = [cmd EXCEPT ![k] = Throw(cmd[k], ServiceError)]
  /\ UNCHANGED <<files, dirs, tables, run, autocompleteItems, attempts, codeCache,
                 cacheOrigin, document, commands>>

\* generateCodeLogic, lines 119-133: the search resolves
GenerateAfterSearchNoCheck(c, results) ==
  LET contextText == Join(ResultTexts(results), "\n---\n")
      prompt == GeneratePrompt(c.language, c.query, contextText)
  IN [Called(c, <<Call("invoke", prompt, 0)>>) EXCEPT
        !.pc = "invoke", !.results = results, !.prompt = prompt]

GenerateAfterSearch(c, results) ==
  IF results = <<>>
    THEN Throw([c EXCEPT !.results = results], CouldNotFind(c.endpointName))
    ELSE LET contextText == Join(ResultTexts(results), "\n---\n")
             prompt == GeneratePrompt(c.language, c.query, contextText)
         IN [Called(c, <<Call("invoke", prompt, 0)>>) EXCEPT
               !.pc = "invoke", !.results = results, !.prompt = prompt]

GenerateSearchReturn(k) ==
  /\ cmd[k].kind = "generate" /\ cmd[k].pc = "search"
  /\ \E results \in SearchResults(tables[cmd[k].collectionName].rows,
                                  SearchLimitGenerate) :
       cmd' = [cmd EXCEPT ![k] = GenerateAfterSearch(cmd[k], results)]
  /\ UNCHANGED <<files, dirs, tables, run, autocompleteItems, attempts, codeCache,
                 cacheOrigin, document, commands>>

\* the request a cache file was last written for
Origin(c) == [endpointName |-> c.endpointName, collectionName |-> c.collectionName]

\* llm.invoke resolves: the snippet is cleaned, cached and returned
GenerateInvokeReturn(k) ==
  /\ cmd[k].kind = "generate" /\ cmd[k].pc = "invoke"
  /\ \E content \in CodeReplies :
       LET codeSnippet == StripFences(content)
       IN /\ codeCache' = saveCodeToCache(cmd[k].endpointName, cmd[k].language,
                                          codeSnippet)
          /\ cmd' = [cmd EXCEPT ![k] = Return(cmd[k], codeSnippet)]
  /\ cacheOrigin' = (CacheFile(cmd[k].endpointName, cmd[k].language) :> Origin(cmd[k]))
                      @@ cacheOrigin
  /\ dirs' = dirs \cup {GeneratedCodeDir}
  /\ UNCHANGED <<files, tables, run, autocompleteItems, attempts, document, commands>>

InvokeThrows(k) ==
  /\ cmd[k].pc = "invoke"
  /\ cmd' = [cmd EXCEPT ![k] = Throw(cmd[k], ServiceError)]
  /\ UNCHANGED <<files, dirs, tables, run, autocompleteItems, attempts, codeCache,
                 cacheOrigin, document, commands>>

\* codepilot.generateAndReplace, lines 380-395: the word at the cursor (the
\* last one) is replaced by the snippet, or the snippet is inserted at the
\* cursor (the end); an error is shown instead when the logic threw
ReplaceWord(doc, onWord, snippet) ==
  IF onWord THEN SubSeq(doc, 1, Len(doc) - 1) \o snippet ELSE doc \o snippet

GenerateFinish(k) ==
  /\ cmd[k].kind = "generate" /\ cmd[k].pc \in {"returned", "threw"}
  /\ \E onWord \in BOOLEAN :
       document' = IF cmd[k].pc = "returned" /\ cmd[k].value # <<>>
                     THEN ReplaceWord(document, onWord, cmd[k].value)
                     ELSE document
  /\ cmd' = [cmd EXCEPT ![k].pc = "done",
                        ![k].shown = IF cmd[k].pc = "threw"
                                       THEN <<"Code generation failed: ">> \o cmd[k].error
                                       ELSE <<>>]
  /\ UNCHANGED <<files, dirs, tables, run, autocompleteItems, attempts, codeCache,
                 cacheOrigin, commands>>

\* readdirSync(storagePath): the directories named codepilot_*
CollectionDirs == {d \in dirs : Head(d) = "codepilot_"}

\* codepilot.executeRefactor and generateRefactoredCodeLogic up to showQuickPick
RefactorStart(k) ==
  /\ CmdStartable(k)
  /\ commands' = commands + 1
  /\ \E language \in Languages, key \in ApiKeys, selectedText \in SelectedTexts,
        userInstruction \in UserInstructions \cup {<<>>}, editor \in BOOLEAN :
       LET c == [IdleCmd EXCEPT !.kind = "refactor", !.language = language,
                                !.apiKey = key, !.selectedText = selectedText,
                                !.userInstruction = userInstruction]
       IN cmd' = [cmd EXCEPT ![k] =
                    IF ~editor \/ userInstruction = <<>> THEN [c EXCEPT !.pc = "done"]
                    ELSE IF key = <<>> THEN Throw(c, NoKeyRefactor)
                    ELSE IF CollectionDirs = {} THEN Throw(c, NothingIngested)
                    ELSE [c EXCEPT !.pc = "pick"]]
  /\ UNCHANGED <<files, dirs, tables, run, autocompleteItems, attempts, codeCache,
                 cacheOrigin, document>>

\* the quick pick is dismissed
RefactorDismissed(k) ==
  /\ cmd[k].kind = "refactor" /\ cmd[k].pc = "pick"
  /\ cmd' = [cmd EXCEPT ![k] = Return(cmd[k], <<>>)]
  /\ UNCHANGED <<files, dirs, tables, run, autocompleteItems, attempts, codeCache,
                 cacheOrigin, document, commands>>

\* a collection is picked; connect(dbPath) is awaited
RefactorPick(k) ==
  /\ cmd[k].kind = "refactor" /\ cmd[k].pc = "pick"
  /\ \E collectionName \in CollectionDirs :
       cmd' = [cmd EXCEPT ![k] =
                 [Called(cmd[k], <<Call("connect", collectionName, 0)>>) EXCEPT
                    !.pc = "connect", !.collectionName = collectionName,
                    !.query = cmd[k].userInstruction \o <<" ">> \o cmd[k].selectedText]]
  /\ UNCHANGED <<files, dirs, tables, run, autocompleteItems, attempts, codeCache,
                 cacheOrigin, document, commands>>

\* generateRefactoredCodeLogic, lines 184-212: the search resolves
RefactorSearchReturn(k) ==
  /\ cmd[k].kind = "refactor" /\ cmd[k].pc = "search"
  /\ \E results \in SearchResults(tables[cmd[k].collectionName].rows,
                                  SearchLimitRefactor) :
       LET apiContextText == Join(ResultTexts(results), "\n---\n")
           prompt == RefactorPrompt(cmd[k].language, apiContextText,
                                    cmd[k].selectedText, cmd[k].userInstruction)
       IN cmd' = [cmd EXCEPT ![k] =
                    [Called(cmd[k], <<Call("invoke", prompt, 0)>>) EXCEPT
                       !.pc = "invoke", !.results = results, !.prompt = prompt]]
  /\ UNCHANGED <<files, dirs, tables, run, autocompleteItems, attempts, codeCache,
                 cacheOrigin, document, commands>>

RefactorInvokeReturn(k) ==
  /\ cmd[k].kind = "refactor" /\ cmd[k].pc = "invoke"
  /\ \E content \in CodeReplies :
       cmd' = [cmd EXCEPT ![k] = Return(cmd[k], StripFences(content))]
  /\ UNCHANGED <<files, dirs, tables, run, autocompleteItems, attempts, codeCache,
                 cacheOrigin, document, commands>>

\* codepilot.executeRefactor, lines 321-348; the selection is the last word
ApplyRefactor(doc, action, newCode) ==
  CASE action = "Replace Selection" -> SubSeq(doc, 1, Len(doc) - 1) \o newCode
    [] action = "Insert Above Selection" ->
         SubSeq(doc, 1, Len(doc) - 1) \o newCode \o <<"\n\n">> \o <<doc[Len(doc)]>>
    [] action = "Insert Below Selection" -> doc \o <<"\n\n">> \o newCode
    [] OTHER -> doc

RefactorFinish(k) ==
  /\ cmd[k].kind = "refactor" /\ cmd[k].pc \in {"returned", "threw"}
  /\ \E action \in {"", "Replace Selection", "Insert Above Selection",
                    "Insert Below Selection"}, cancelled \in BOOLEAN :
       document' = IF cmd[k].pc = "returned" /\ cmd[k].value # <<>> /\ ~cancelled
                     THEN ApplyRefactor(document, action, cmd[k].value)
                     ELSE document
  /\ cmd' = [cmd EXCEPT ![k].pc = "done",
                        ![k].shown = IF cmd[k].pc = "threw"
                                       THEN <<"Refactor failed: ">> \o cmd[k].error
                                       ELSE <<>>]
  /\ UNCHANGED <<files, dirs, tables, run, autocompleteItems, attempts, codeCache,
                 cacheOrigin, commands>>

\* codepilot.clearEndpointCache, lines 417-442: the label of a cache file,
\* parsed back from its name endpointName_language.txt
LastIndexOf(seq, tok) ==
  LET at == {i \in DOMAIN seq : seq[i] = tok}
  IN IF at = {} THEN 0 ELSE CHOOSE i \in at : \A j \in at : j <= i

Label(file) ==
  LET nameWithoutExt == IF file # <<>> /\ file[Len(file)] = ".txt"
                          THEN SubSeq(file, 1, Len(file) - 1) ELSE file
      lastUnderscoreIndex == LastIndexOf(nameWithoutExt, "_")
      prefix == SubSeq(nameWithoutExt, 1, lastUnderscoreIndex - 1)
      endpointName == [i \in DOMAIN prefix |-> IF prefix[i] = "_" THEN " " ELSE prefix[i]]
      language == SubSeq(nameWithoutExt, lastUnderscoreIndex + 1, Len(nameWithoutExt))
  IN IF lastUnderscoreIndex = 0 THEN nameWithoutExt
     ELSE endpointName \o <<" (">> \o language \o <<")">>

CacheIsEmpty == <<"Code cache is empty.">>

Cleared(file) == <<"Cache for ", Quote>> \o Label(file) \o <<Quote, " has been cleared.">>

FailedToClear == <<"Failed to clear cache: ", "ENOENT">>

\* fs.unlinkSync(filePath)
Unlinked(cache, file) == [f \in DOMAIN cache \ {file} |-> cache[f]]

\* codepilot.clearEndpointCache up to the quick pick
ClearStart(k) ==
  /\ CmdStartable(k)
  /\ commands' = commands + 1
  /\ LET cachedFiles == DOMAIN codeCache
         c == [IdleCmd EXCEPT !.kind = "clear"]
     IN cmd' = [cmd EXCEPT ![k] =
                  IF GeneratedCodeDir \notin dirs \/ cachedFiles = {}
                    THEN [c EXCEPT !.pc = "done", !.shown = CacheIsEmpty]
                    ELSE [c EXCEPT !.pc = "clearPick", !.cachedFiles = cachedFiles]]
  /\ UNCHANGED <<files, dirs, tables, run, autocompleteItems, attempts, codeCache,
                 cacheOrigin, document>>

\* the quick pick is dismissed
ClearDismissed(k) ==
  /\ cmd[k].kind = "clear" /\ cmd[k].pc = "clearPick"
  /\ cmd' = [cmd EXCEPT ![k].pc = "done"]
  /\ UNCHANGED <<files, dirs, tables, run, autocompleteItems, attempts, codeCache,
                 cacheOrigin, document, commands>>

\* a cached file is selected; the modal confirmation is awaited
ClearSelect(k) ==
  /\ cmd[k].kind = "clear" /\ cmd[k].pc = "clearPick"
  /\ \E file \in cmd[k].cachedFiles :
       cmd' = [cmd EXCEPT ![k].pc = "clearConfirm", ![k].selected = file]
  /\ UNCHANGED <<files, dirs, tables, run, autocompleteItems, attempts, codeCache,
                 cacheOrigin, document, commands>>

\* lines 455-467, the confirmation is answered: nothing happens unless it is
\* 'Yes, delete'
ClearAnswered(c, confirmation) ==
  IF confirmation # "Yes, delete"
    THEN [cache |-> codeCache, shown |-> <<>>]
  ELSE IF HasCacheFile(c.selected)
    THEN [cache |-> Unlinked(codeCache, c.selected), shown |-> Cleared(c.selected)]
    ELSE [cache |-> codeCache, shown |-> FailedToClear]

ClearConfirm(k) ==
  /\ cmd[k].kind = "clear" /\ cmd[k].pc = "clearConfirm"
  /\ \E confirmation \in {"Yes, delete", "dismissed"} :
       LET out == ClearAnswered(cmd[k], confirmation)
       IN /\ codeCache' = out.cache
          /\ cacheOrigin' = [f \in DOMAIN out.cache |-> cacheOrigin[f]]
          /\ cmd' = [cmd EXCEPT ![k].pc = "done", ![k].shown = out.shown,
                                ![k].confirmation = confirmation]
  /\ UNCHANGED <<files, dirs, tables, run, autocompleteItems, attempts, document,
                 commands>>

\* the rows of a table are deleted with another tool
RowsDeletedOutside ==
  /\ \E c \in Collections :
       /\ tables[c].exists /\ tables[c].rows # <<>>
       /\ tables' = [tables EXCEPT ![c].rows = <<>>]
  /\ UNCHANGED <<files, dirs, run, autocompleteItems, attempts, queryVars>>

\* one command at a time: the slot the commands of SpecQuery run in
Foreground == {"k1"}

QueryNext ==
  \/ \E k \in Foreground : GenerateStart(k)
  \/ \E k \in Foreground : GenerateDismissed(k)
  \/ \E k \in Foreground : GenerateInput(k)
  \/ \E k \in Foreground : OpenTable(k)
  \/ \E k \in Foreground : EmbedQueryReturn(k)
  \/ \E k \in Foreground : EmbedQueryThrows(k)
  \/ \E k \in Foreground : GenerateSearchReturn(k)
  \/ \E k \in Foreground : GenerateInvokeReturn(k)
  \/ \E k \in Foreground : InvokeThrows(k)
  \/ \E k \in Foreground : GenerateFinish(k)
  \/ \E k \in Foreground : RefactorStart(k)
  \/ \E k \in Foreground : RefactorDismissed(k)
  \/ \E k \in Foreground : RefactorPick(k)
  \/ \E k \in Foreground : RefactorSearchReturn(k)
  \/ \E k \in Foreground : RefactorInvokeReturn(k)
  \/ \E k \in Foreground : RefactorFinish(k)
  \/ \E k \in Foreground : ClearStart(k)
  \/ \E k \in Foreground : ClearDismissed(k)
  \/ \E k \in Foreground : ClearSelect(k)
  \/ \E k \in Foreground : ClearConfirm(k)
  \/ RowsDeletedOutside

SpecQuery == QueryInit /\ [][QueryNext]_vars

(***************************************************************************)
(* Overlapping commands on the code cache: generateAndReplace and          *)
(* clearEndpointCache handlers started while another one awaits, over one  *)
(* language, an open editor with the cursor on a word, and an empty        *)
(* answer to the input box.                                                *)
(***************************************************************************)
OneLanguage == <<"python">>

OverlapGenerateStart(k) ==
  /\ GenerateStart(k)
  /\ cmd'[k].language = OneLanguage
  /\ GeneratedCodeDir \in dirs'

OverlapGenerateInput(k) ==
  /\ GenerateInput(k)
  /\ cmd'[k].query = cmd[k].endpointName

OverlapGenerateFinish(k) ==
  /\ GenerateFinish(k)
  /\ document' \in {document, ReplaceWord(document, TRUE, cmd[k].value)}

OverlapNext ==
  \/ \E k \in CmdProcs : OverlapGenerateStart(k)
  \/ \E k \in CmdProcs : GenerateDismissed(k)
  \/ \E k \in CmdProcs : OverlapGenerateInput(k)
  \/ \E k \in CmdProcs : OpenTable(k)
  \/ \E k \in CmdProcs : EmbedQueryReturn(k)
  \/ \E k \in CmdProcs : EmbedQueryThrows(k)
  \/ \E k \in CmdProcs : GenerateSearchReturn(k)
  \/ \E k \in CmdProcs : GenerateInvokeReturn(k)
  \/ \E k \in CmdProcs : InvokeThrows(k)
  \/ \E k \in CmdProcs : OverlapGenerateFinish(k)
  \/ \E k \in CmdProcs : ClearStart(k)
  \/ \E k \in CmdProcs : ClearDismissed(k)
  \/ \E k \in CmdProcs : ClearSelect(k)
  \/ \E k \in CmdProcs : ClearConfirm(k)

SpecOverlap == QueryInit /\ [][OverlapNext]_vars

(***************************************************************************)
(* Properties of the query-time flows                                      *)
(***************************************************************************)
Ops(c) == [i \in DOMAIN c.calls |-> c.calls[i].op]

Invoked(c) == \E i \in DOMAIN c.calls : c.calls[i].op = "invoke"

\* C2: in generateCodeLogic, on a cache miss with a non-empty search result,
\* the prompt passed to the chat model contains the text of the (at most 4)
\* documents the similarity search returned.
C2_PromptHasDocuments ==
  \A k \in CmdProcs :
    (cmd[k].kind = "generate" /\ cmd[k].pc = "invoke") =>
      /\ cmd[k].results # <<>>
      /\ Len(cmd[k].results) <= SearchLimitGenerate
      /\ \A i \in DOMAIN cmd[k].results :
           Contains(cmd[k].prompt, cmd[k].results[i].text)

CallRank(op) ==
  CASE op = "connect" -> 1
    [] op = "openTable" -> 2
    [] op = "embedQuery" -> 3
    [] op = "search" -> 4
    [] OTHER -> 5

\* C3: in generateRefactoredCodeLogic, once a collection is picked, the calls
\* are embed query, then similarity search with limit 5, then the chat model;
\* the embedded query is the user instruction followed by the selected text,
\* and the prompt contains the text of every record the search returned, the
\* selected text and the user instruction.
C3_RefactorFlow ==
  \A k \in CmdProcs :
    cmd[k].kind = "refactor" =>
      /\ \A i, j \in DOMAIN cmd[k].calls :
           i < j => CallRank(cmd[k].calls[i].op) < CallRank(cmd[k].calls[j].op)
      /\ \A i \in DOMAIN cmd[k].calls :
           /\ cmd[k].calls[i].op = "embedQuery" =>
                cmd[k].calls[i].text =
                  cmd[k].userInstruction \o <<" ">> \o cmd[k].selectedText
           /\ cmd[k].calls[i].op = "search" =>
                /\ cmd[k].calls[i].limit = 5
                /\ \E j \in 1..(i - 1) : cmd[k].calls[j].op = "embedQuery"
           /\ cmd[k].calls[i].op = "invoke" =>
                /\ \E j \in 1..(i - 1) : cmd[k].calls[j].op = "search"
                /\ Len(cmd[k].results) <= 5
                /\ cmd[k].calls[i].text = cmd[k].prompt
                /\ \A j \in DOMAIN cmd[k].results :
                     Contains(cmd[k].calls[i].text, cmd[k].results[j].text)
                /\ Contains(cmd[k].calls[i].text, cmd[k].selectedText)
                /\ Contains(cmd[k].calls[i].text, cmd[k].userInstruction)

C3_Witness ==
  \E k \in CmdProcs :
    /\ cmd[k].kind = "refactor" /\ cmd[k].pc = "invoke"
    /\ Invoked(cmd[k])
    /\ Len(cmd[k].results) = 5
    /\ cmd[k].collectionName = AcmeDocs

\* C10: when the similarity search of generateCodeLogic returns no record the
\* function fails with "Could not find documentation for '<endpointName>'.",
\* the chat model is not invoked, the code cache is not written and
\* generateAndReplace makes no edit to the document.
C10_NoDocumentation ==
  /\ [][\A k \in CmdProcs :
          (cmd[k].kind = "generate" /\ cmd[k].pc = "search" /\ cmd'[k] # cmd[k]
             /\ cmd'[k].results = <<>>) =>
            /\ cmd'[k].pc = "threw"
            /\ cmd'[k].error = <<"Could not find documentation for '">>
                                 \o cmd[k].endpointName \o <<"'.">>
            /\ cmd'[k].calls = cmd[k].calls
            /\ ~Invoked(cmd'[k])
            /\ codeCache' = codeCache
            /\ document' = document]_vars
  /\ [][\A k \in CmdProcs :
          (cmd[k].kind = "generate" /\ cmd[k].pc = "threw" /\ cmd'[k] # cmd[k]) =>
            /\ cmd'[k].pc = "done"
            /\ cmd'[k].shown = <<"Code generation failed: ">> \o cmd[k].error
            /\ cmd'[k].calls = cmd[k].calls
            /\ codeCache' = codeCache
            /\ document' = document]_vars

C10_Witness ==
  \E k \in CmdProcs :
    /\ cmd[k].kind = "generate" /\ cmd[k].pc = "done"
    /\ cmd[k].error = CouldNotFind(cmd[k].endpointName)
    /\ cmd[k].shown # <<>>
    /\ Ops(cmd[k]) = <<"connect", "openTable", "embedQuery", "search">>
    /\ document = InitialDocument

\* a dialog of the logic functions is open: the input box of generateCodeLogic
\* or the collection pick of generateRefactoredCodeLogic
AtDialog(c) == c.pc \in {"inputBox", "pick"}

\* the logic function returned the empty string having called nothing
CancelledReturn(c) == c.pc = "returned" /\ c.value = <<>> /\ c.calls = <<>>

\* C11: when the input box of generateCodeLogic is dismissed, or no collection
\* is picked in generateRefactoredCodeLogic, the function returns the empty
\* string without opening the database, calling the embedding service or the
\* chat model, or writing the code cache, and the calling command then makes
\* no edit to the document.
C11_CancellationNoEffect ==
  /\ [][\A k \in CmdProcs :
          (AtDialog(cmd[k]) /\ cmd'[k] # cmd[k] /\ cmd'[k].pc # "connect") =>
            /\ CancelledReturn(cmd'[k])
            /\ cmd'[k].error = <<>>
            /\ codeCache' = codeCache
            /\ document' = document
            /\ tables' = tables
            /\ dirs' = dirs]_vars
  /\ [][\A k \in CmdProcs :
          (CancelledReturn(cmd[k]) /\ cmd'[k] # cmd[k]) =>
            /\ cmd'[k].pc = "done"
            /\ cmd'[k].calls = <<>>
            /\ cmd'[k].shown = <<>>
            /\ codeCache' = codeCache
            /\ document' = document
            /\ tables' = tables
            /\ dirs' = dirs]_vars

C11_Witness ==
  \E k \in CmdProcs :
    /\ commands = 2
    /\ cmd[k].kind = "refactor"
    /\ CancelledReturn(cmd[k])
    /\ cmd[k].apiKey # <<>> /\ cmd[k].userInstruction # <<>>
    /\ document = InitialDocument

(***************************************************************************)
(* Properties of the code cache                                            *)
(***************************************************************************)
\* command k steps into generateCodeLogic
GenerateCalled(k) ==
  /\ cmd[k].pc \in {"idle", "done"}
  /\ cmd'[k].kind = "generate" /\ cmd'[k].pc \notin {"idle", "done"}

\* command k, in flight since it missed the cache, saves and returns a snippet
GenerateReturned(k) ==
  /\ cmd[k].kind = "generate" /\ cmd[k].pc = "invoke"
  /\ cmd'[k].pc = "returned"

\* command k saves and returns a non-empty snippet
GenerateSaved(k) == GenerateReturned(k) /\ cmd'[k].value # <<>>

FileOf(c) == CacheFile(c.endpointName, c.language)

\* command k unlinks the file it was asked to after 'Yes, delete'
ClearedBy(k, file) ==
  /\ cmd[k].kind = "clear" /\ cmd[k].pc = "clearConfirm" /\ cmd[k].selected = file
  /\ cmd'[k].pc = "done" /\ cmd'[k].confirmation = "Yes, delete"
  /\ codeCache' = Unlinked(codeCache, file)

\* a call finding a non-empty cache file returns its content at once, with no
\* prompt, no API key and no call to a service
CacheHit(k) ==
  (GenerateCalled(k) /\ HasCacheFile(FileOf(cmd'[k]))
     /\ codeCache[FileOf(cmd'[k])] # <<>>) =>
    /\ cmd'[k].pc = "returned"
    /\ cmd'[k].value = codeCache[FileOf(cmd'[k])]
    /\ cmd'[k].calls = <<>>
    /\ codeCache' = codeCache

\* files leave the cache one at a time, through a confirmed clearEndpointCache
OnlyClearRemoves ==
  \A file \in DOMAIN codeCache \ DOMAIN codeCache' :
    \E k \in CmdProcs : ClearedBy(k, file)

UsableTable(c, d, t) == c \in d /\ t[c].exists /\ t[c].rows # <<>>

\* invocation p of ingestPostmanCollection returns true in this step
ReturnsTrue(p) ==
  run[p].pc # "resolved" /\ run'[p].pc = "resolved" /\ run'[p].result = "true"

\* C13: whenever ingestPostmanCollection returns true, after any sequence of
\* earlier attempts (failed part-way or with zero chunks), a table named
\* collectionName with at least one record exists under
\* storagePath/collectionName.
C13_SuccessImpliesTable ==
  [][\A p \in Procs :
       ReturnsTrue(p) => UsableTable(run'[p].collectionName, dirs', tables')]_vars

\* two interleaved ingestDocs commands, nobody else touching the store
RaceNext ==
  \/ \E p \in Procs : CmdCancelled(p)
  \/ \E p \in Procs : CmdNoKey(p)
  \/ \E p \in Procs : CallNoKey(p)
  \/ \E p \in Procs : IngestCall(p)
  \/ \E p \in Procs : LlmReturn(p)
  \/ \E p \in Procs : SplitReturn(p)
  \/ \E p \in Procs : SplitThrows(p)
  \/ \E p \in Procs : EmbedReturn(p)
  \/ \E p \in Procs : EmbedThrows(p)
  \/ \E p \in Procs : ConnectReturn(p)
  \/ \E p \in Procs : ConnectThrows(p)
  \/ \E p \in Procs : CreateTableReturn(p)
  \/ \E p \in Procs : CreateTableThrows(p)
  \/ \E p \in Procs : CmdSuccess(p)
  \/ \E p \in Procs : CmdFailure(p)
  \/ \E p \in Procs : CallReturns(p)
  \/ \E p \in Procs : Refresh(p)

SpecRace == IngestInit /\ [][RaceNext]_vars

\* the file parses and its endpoints yield documents
Ingestible(f) ==
  /\ f.ok
  /\ DocumentsOf(flattenEndpoints(f.item), CompanyName,
                 [ok |-> FALSE, content |-> <<>>]) # <<>>

\* both commands passed the existence check and both ingestions are over
BothFinished(p, q) ==
  /\ p # q
  /\ Ingestible(run[p].file) /\ Ingestible(run[q].file)
  /\ run[p].pc = "resolved" /\ run[q].pc = "resolved"
  /\ run[p].viaCmd /\ run[q].viaCmd
  /\ run[p].apiKey # <<>> /\ run[q].apiKey # <<>>
  /\ ~run[p].sawStore /\ ~run[q].sawStore
  /\ run[p].collectionName = run[q].collectionName

WrittenBy(r) ==
  /\ r.result = "true"
  /\ tables[r.collectionName].rows = DataRows(r.chunks, r.vectors)

\* C14: when two ingestDocs commands for one collection name, each given a
\* file that yields documents, interleave, both passing the existence check
\* before either wrote the store, then once both
\* have finished and one reported success the store is one complete table
\* written by one of them: no run deleted the store the other had finished
\* writing without replacing it.
C14_InterleavedIngest ==
  \A p, q \in Procs :
    (BothFinished(p, q) /\ "true" \in {run[p].result, run[q].result}) =>
      /\ UsableTable(run[p].collectionName, dirs, tables)
      /\ WrittenBy(run[p]) \/ WrittenBy(run[q])

\* generateCodeLogic returned the content of a cache file
ReturnedFromCache(c) ==
  c.kind = "generate" /\ c.pc = "returned" /\ c.calls = <<>> /\ c.value # <<>>

\* C15: the snippet generateCodeLogic returns from the code cache for a request
\* (endpointName, collectionName, language) was generated for that same
\* endpointName and collectionName: requests that differ in collection, or in
\* non-alphanumeric characters of the endpoint name, share no cache entry.
C15_CacheEntryOwnRequest ==
  \A k \in CmdProcs :
    ReturnedFromCache(cmd[k]) =>
      /\ HasCacheFile(FileOf(cmd[k]))
      /\ cacheOrigin[FileOf(cmd[k])] = Origin(cmd[k])

====
